---------------------------- MODULE Spec2Model ----------------------------
(***************************************************************************)
(* Model of lex-with-regexps (src/index.js): buildLexerRegExp, matchNext,  *)
(* nextLocation, SyntaxError and the lex loop.                             *)
(*                                                                         *)
(* Strings are sequences of one-character strings; offsets are 0-based as  *)
(* in JavaScript, so the character at offset i of s is s[i + 1].           *)
(***************************************************************************)
EXTENDS Integers, Sequences, FiniteSets

VARIABLES src, regExps, tokens, loc, pc, ret, thrown, iters, zeroLen,
          nlLoc, nlText, nlOut

vars == <<src, regExps, tokens, loc, pc, ret, thrown, iters, zeroLen,
          nlLoc, nlText, nlOut>>

lexVars == <<src, regExps, tokens, loc, ret, thrown, iters, zeroLen>>

nlVars == <<nlLoc, nlText, nlOut>>

-----------------------------------------------------------------------------
(* Bounds of the model.                                                    *)

MaxLen == 3

MaxPatterns == 2

MaxIters == 5

MaxStart == 2

-----------------------------------------------------------------------------
(* Characters and strings.                                                 *)

NL == "\n"

Alphabet == {"a", "b", NL}

Strings == UNION {[1..k -> Alphabet] : k \in 0..MaxLen}

Substring(s, from, to) == [j \in 1..(to - from) |-> s[from + j]]

RECURSIVE Concat(_)
Concat(ss) == IF ss = <<>> THEN <<>> ELSE Head(ss) \o Concat(Tail(ss))

-----------------------------------------------------------------------------
(* Regular expressions: the sources of the caller's patterns, as syntax    *)
(* trees, and the backtracking matcher of RegExp#exec.                     *)

Chr(c) == [t |-> "chr", c |-> c]

Set(cs) == [t |-> "set", cs |-> cs]

Dot == [t |-> "dot"]

Cat(a, b) == [t |-> "seq", a |-> a, b |-> b]

Alt(a, b) == [t |-> "alt", a |-> a, b |-> b]

Star(a) == [t |-> "star", a |-> a]

Plus(a) == Cat(a, Star(a))

\* The pattern sets of the model are built from these entries
\* (kind |-> regexp.source).
Library ==
  [a    |-> Chr("a"),                  \* /a/
   as   |-> Plus(Chr("a")),            \* /a+/
   opt  |-> Star(Chr("a")),            \* /a*/
   b    |-> Chr("b"),                  \* /b/
   w    |-> Plus(Set({"a", "b"})),     \* /[ab]+/
   aab  |-> Alt(Chr("a"), Cat(Chr("a"), Chr("b"))),   \* /a|ab/
   dots |-> Plus(Dot),                 \* /.+/
   anl  |-> Plus(Set({"a", NL})),      \* /[a\n]+/
   nl   |-> Chr(NL)]                   \* /\n/

Kinds == DOMAIN Library

\* Ordered pattern sets: the entries of an object, in insertion order,
\* with unique keys.
PatternSets ==
  {ps \in UNION {[1..k -> Kinds] : k \in 0..MaxPatterns} :
     \A i, j \in DOMAIN ps : i # j => ps[i] # ps[j]}

\* Ends(r, s, i, dotAll): the end offsets of the matches of r in s that
\* start at offset i, in the order the backtracking matcher tries them.
RECURSIVE Ends(_, _, _, _), EndsFrom(_, _, _, _), StarFrom(_, _, _, _, _)
Ends(r, s, i, dotAll) ==
  CASE r.t = "chr"  -> IF i < Len(s) /\ s[i + 1] = r.c THEN <<i + 1>> ELSE <<>>
    [] r.t = "set"  -> IF i < Len(s) /\ s[i + 1] \in r.cs THEN <<i + 1>> ELSE <<>>
    [] r.t = "dot"  -> IF i < Len(s) /\ (dotAll \/ s[i + 1] # NL)
                       THEN <<i + 1>> ELSE <<>>
    [] r.t = "seq"  -> EndsFrom(r.b, s, Ends(r.a, s, i, dotAll), dotAll)
    [] r.t = "alt"  -> Ends(r.a, s, i, dotAll) \o Ends(r.b, s, i, dotAll)
    [] r.t = "star" -> StarFrom(r, s, i, Ends(r.a, s, i, dotAll), dotAll) \o <<i>>

\* The continuation r tried from each of the offsets es, in order.
EndsFrom(r, s, es, dotAll) ==
  IF es = <<>> THEN <<>>
  ELSE Ends(r, s, Head(es), dotAll) \o EndsFrom(r, s, Tail(es), dotAll)

\* Greedy repetition: one more iteration first; an iteration that consumed
\* nothing is not repeated.
StarFrom(r, s, i, es, dotAll) ==
  IF es = <<>> THEN <<>>
  ELSE (IF Head(es) > i THEN Ends(r, s, Head(es), dotAll) ELSE <<>>)
       \o StarFrom(r, s, i, Tail(es), dotAll)

-----------------------------------------------------------------------------
(* buildLexerRegExp and RegExp#exec.                                       *)

\* The value JavaScript calls undefined, where a kind is expected. A key of
\* a pattern set is an identifier, so it never equals this string.
undefined == "<undefined>"

\* One named capture group per entry, in the order of the entries, joined
\* by "|", with the flags "s" (dotAll) and "y" (sticky). With no entry the
\* source is the empty string: a regular expression that matches the empty
\* string and has no named group.
buildLexerRegExp(rs) ==
  [alts   |-> [k \in 1..Len(rs) |-> [name |-> rs[k], re |-> Library[rs[k]]]],
   dotAll |-> TRUE,
   sticky |-> TRUE]

\* The candidate matches of the alternation at offset i, in the order the
\* matcher tries them: all of the first alternative, then the second, ...
RECURSIVE AltMatches(_, _, _, _)
AltMatches(re, k, str, i) ==
  IF k > Len(re.alts) THEN <<>>
  ELSE LET es == Ends(re.alts[k].re, str, i, re.dotAll)
       IN  [j \in 1..Len(es) |-> [end |-> es[j], alt |-> k]]
           \o AltMatches(re, k + 1, str, i)

execNull == [matched |-> FALSE, index |-> 0, text |-> <<>>,
             hasGroups |-> FALSE, groups |-> <<>>]

\* The match object for candidate m at offset i: match[0], match.index and
\* match.groups (one entry per named group; only the group of the
\* alternative that matched is defined).
MatchObject(re, str, i, m) ==
  LET text == Substring(str, i, m.end)
  IN  [matched   |-> TRUE,
       index     |-> i,
       text      |-> text,
       hasGroups |-> TRUE,
       groups    |-> [k \in 1..Len(re.alts) |->
                        [name    |-> re.alts[k].name,
                         defined |-> k = m.alt,
                         text    |-> IF k = m.alt THEN text ELSE <<>>]]]

\* One attempt at offset i.
ExecAt(re, str, i) ==
  IF Len(re.alts) = 0
  THEN [matched |-> TRUE, index |-> i, text |-> <<>>,
        hasGroups |-> FALSE, groups |-> <<>>]
  ELSE LET ms == AltMatches(re, 1, str, i)
       IN  IF ms = <<>> THEN execNull ELSE MatchObject(re, str, i, Head(ms))

\* Mutation: without the sticky flag exec searches forward from lastIndex.
RECURSIVE SearchFrom(_, _, _)
SearchFrom(re, str, i) ==
  IF i > Len(str) THEN execNull
  ELSE IF ExecAt(re, str, i).matched THEN ExecAt(re, str, i)
  ELSE SearchFrom(re, str, i + 1)

exec_search(re, lastIndex, str) == SearchFrom(re, str, lastIndex)

\* Mutation: leftmost-longest instead of first alternative first.
exec_longest(re, lastIndex, str) ==
  IF Len(re.alts) = 0 THEN ExecAt(re, str, lastIndex)
  ELSE LET ms == AltMatches(re, 1, str, lastIndex)
           best == CHOOSE j \in 1..Len(ms) :
                     /\ \A h \in 1..Len(ms) : ms[h].end <= ms[j].end
                     /\ \A h \in 1..(j - 1) : ms[h].end < ms[j].end
       IN  IF ms = <<>> THEN execNull
           ELSE MatchObject(re, str, lastIndex, ms[best])

\* lexerRegExp.exec(str) with lexerRegExp.lastIndex = lastIndex: with the
\* sticky flag the match starts exactly at lastIndex or there is none.
exec(re, lastIndex, str) ==
  IF re.sticky THEN ExecAt(re, str, lastIndex)
  ELSE SearchFrom(re, str, lastIndex)

-----------------------------------------------------------------------------
(* matchNext.                                                              *)

\* A string is truthy unless it is empty; undefined is falsy.
Truthy(g) == g.defined /\ Len(g.text) > 0

\* Object.keys(groups).find((k) => groups[k])
FindKind(groups) ==
  LET hits == {k \in DOMAIN groups : Truthy(groups[k])}
  IN  IF hits = {} THEN undefined
      ELSE groups[CHOOSE k \in hits : \A h \in hits : k <= h].name

\* tag "null": no match; tag "TypeError": Object.keys(match.groups) with
\* match.groups undefined; tag "match": {kind, text}.
matchNext(index, str, lexerRegExp) ==
  LET match == exec(lexerRegExp, index, str)
  IN  IF ~match.matched
      THEN [tag |-> "null", kind |-> undefined, text |-> <<>>]
      ELSE IF ~match.hasGroups
      THEN [tag |-> "TypeError", kind |-> undefined, text |-> match.text]
      ELSE [tag |-> "match", kind |-> FindKind(match.groups),
            text |-> match.text]

-----------------------------------------------------------------------------
(* nextLocation.                                                           *)

\* text.match(/\n/g)?.length ?? 0
RECURSIVE MatchAllNewlines(_)
MatchAllNewlines(text) ==
  IF text = <<>> THEN 0
  ELSE (IF Head(text) = NL THEN 1 ELSE 0) + MatchAllNewlines(Tail(text))

\* text.lastIndexOf(c), scanning back from offset i; -1 when absent.
RECURSIVE LastIndexFrom(_, _, _)
LastIndexFrom(text, c, i) ==
  IF i < 0 THEN -1
  ELSE IF text[i + 1] = c THEN i
  ELSE LastIndexFrom(text, c, i - 1)

lastIndexOf(text, c) == LastIndexFrom(text, c, Len(text) - 1)

\* Mutation: the first newline instead of the last.
RECURSIVE IndexFrom(_, _, _)
IndexFrom(text, c, i) ==
  IF i >= Len(text) THEN -1
  ELSE IF text[i + 1] = c THEN i
  ELSE IndexFrom(text, c, i + 1)

nextLocation_firstNewline(l, text) ==
  LET index == l.index + Len(text)
      line == l.line + MatchAllNewlines(text)
      firstNewlineIndex == IndexFrom(text, NL, 0)
      column == IF firstNewlineIndex >= 0
                THEN Len(text) - firstNewlineIndex
                ELSE l.column + Len(text)
  IN  [index |-> index, line |-> line, column |-> column]

\* Mutation: a text with newlines counts as one more line (match without
\* the "g" flag).
nextLocation_oneNewline(l, text) ==
  LET index == l.index + Len(text)
      line == l.line + (IF MatchAllNewlines(text) > 0 THEN 1 ELSE 0)
      lastNewlineIndex == lastIndexOf(text, NL)
      column == IF lastNewlineIndex >= 0
                THEN Len(text) - lastNewlineIndex
                ELSE l.column + Len(text)
  IN  [index |-> index, line |-> line, column |-> column]

\* Mutation: the index advances one character too far.
nextLocation_skip(l, text) ==
  LET index == l.index + Len(text) + 1
      line == l.line + MatchAllNewlines(text)
      lastNewlineIndex == lastIndexOf(text, NL)
      column == IF lastNewlineIndex >= 0
                THEN Len(text) - lastNewlineIndex
                ELSE l.column + Len(text)
  IN  [index |-> index, line |-> line, column |-> column]

nextLocation(l, text) ==
  LET index == l.index + Len(text)
      line == l.line + MatchAllNewlines(text)
      lastNewlineIndex == lastIndexOf(text, NL)
      column == IF lastNewlineIndex >= 0
                THEN Len(text) - lastNewlineIndex
                ELSE l.column + Len(text)
  IN  [index |-> index, line |-> line, column |-> column]

-----------------------------------------------------------------------------
(* SyntaxError.                                                            *)

Digits == <<"0", "1", "2", "3", "4", "5", "6", "7", "8", "9">>

\* Template-literal formatting of a non-negative integer.
RECURSIVE ToString(_)
ToString(n) ==
  IF n < 10 THEN <<Digits[n + 1]>>
  ELSE ToString(n \div 10) \o <<Digits[(n % 10) + 1]>>

\* src.split(sep): the pieces between the separators, at least one piece.
RECURSIVE SplitFrom(_, _, _, _)
SplitFrom(s, sep, start, i) ==
  IF i >= Len(s) THEN <<Substring(s, start, Len(s))>>
  ELSE IF s[i + 1] = sep
  THEN <<Substring(s, start, i)>> \o SplitFrom(s, sep, i + 1, i + 1)
  ELSE SplitFrom(s, sep, start, i + 1)

split(s, sep) == SplitFrom(s, sep, 0, 0)

\* " ".repeat(n)
repeat(c, n) == [j \in 1..n |-> c]

UndefinedText == <<"u", "n", "d", "e", "f", "i", "n", "e", "d">>

UnknownToken == <<"U", "n", "k", "n", "o", "w", "n", " ", "t", "o", "k", "e", "n">>

\* Mutation: the marker is indented by column instead of column - 1.
SyntaxError_marker(l, s, msg) ==
  LET lines == split(s, NL)
      line == IF l.line - 1 \in 0..(Len(lines) - 1)
              THEN lines[l.line] ELSE UndefinedText
      marker == repeat(" ", l.column) \o <<"^">>
  IN  [type    |-> "SyntaxError",
       message |-> ToString(l.line) \o <<":">> \o ToString(l.column)
                   \o <<":", " ">> \o msg \o <<NL>> \o line \o <<NL>> \o marker,
       loc     |-> l,
       src     |-> s]

SyntaxError(l, s, msg) ==
  LET lines == split(s, NL)
      line == IF l.line - 1 \in 0..(Len(lines) - 1)
              THEN lines[l.line] ELSE UndefinedText
      marker == repeat(" ", l.column - 1) \o <<"^">>
  IN  [type    |-> "SyntaxError",
       message |-> ToString(l.line) \o <<":">> \o ToString(l.column)
                   \o <<":", " ">> \o msg \o <<NL>> \o line \o <<NL>> \o marker,
       loc     |-> l,
       src     |-> s]

-----------------------------------------------------------------------------
(* lex: one action per way an iteration of the loop can go.                *)

Origin == [index |-> 0, line |-> 1, column |-> 1]

Init ==
  /\ src \in Strings
  /\ regExps \in PatternSets
  /\ tokens = <<>>
  /\ loc = Origin
  /\ pc = "loop"
  /\ ret = <<>>
  /\ thrown = <<>>
  /\ iters = 0
  /\ zeroLen = FALSE
  /\ nlLoc = Origin
  /\ nlText = <<>>
  /\ nlOut = Origin

lexerRegExp == buildLexerRegExp(regExps)

\* tokens.push({...match, loc}); loc = nextLocation(loc, match.text)
LexPush ==
  /\ pc = "loop"
  /\ loc.index < Len(src)
  /\ iters < MaxIters
  /\ LET match == matchNext(loc.index, src, lexerRegExp)
     IN  /\ match.tag = "match"
         /\ tokens' = Append(tokens,
                        [kind |-> match.kind, text |-> match.text, loc |-> loc])
         /\ loc' = nextLocation(loc, match.text)
         /\ zeroLen' = (zeroLen \/ match.text = <<>>)
  /\ iters' = iters + 1
  /\ UNCHANGED <<src, regExps, pc, ret, thrown, nlVars>>

\* if (match == null) throw new SyntaxError(loc, src, "Unknown token")
LexUnknown ==
  /\ pc = "loop"
  /\ loc.index < Len(src)
  /\ matchNext(loc.index, src, lexerRegExp).tag = "null"
  /\ thrown' = <<SyntaxError(loc, src, UnknownToken)>>
  /\ pc' = "thrown"
  /\ iters' = iters + 1
  /\ UNCHANGED <<src, regExps, tokens, loc, ret, zeroLen, nlVars>>

\* Object.keys(match.groups) throws inside matchNext when the match has no
\* groups object; the error propagates out of lex.
LexTypeError ==
  /\ pc = "loop"
  /\ loc.index < Len(src)
  /\ matchNext(loc.index, src, lexerRegExp).tag = "TypeError"
  /\ thrown' = <<[type |-> "TypeError"]>>
  /\ pc' = "thrown"
  /\ iters' = iters + 1
  /\ zeroLen' = TRUE
  /\ UNCHANGED <<src, regExps, tokens, loc, ret, nlVars>>

\* return tokens
LexReturn ==
  /\ pc = "loop"
  /\ ~(loc.index < Len(src))
  /\ ret' = <<tokens>>
  /\ pc' = "returned"
  /\ UNCHANGED <<src, regExps, tokens, loc, thrown, iters, zeroLen, nlVars>>

Next == LexPush \/ LexUnknown \/ LexTypeError \/ LexReturn

Spec == Init /\ [][Next]_vars

-----------------------------------------------------------------------------
(* nextLocation as a pure function, applied to arbitrary arguments.        *)

Locations ==
  [index : 0..MaxStart, line : 1..(MaxStart + 1), column : 1..(MaxStart + 1)]

InitNL ==
  /\ src = <<>>
  /\ regExps = <<>>
  /\ tokens = <<>>
  /\ loc = Origin
  /\ pc = "pure"
  /\ ret = <<>>
  /\ thrown = <<>>
  /\ iters = 0
  /\ zeroLen = FALSE
  /\ nlLoc \in Locations
  /\ nlText \in Strings
  /\ nlOut = nlLoc

ApplyNextLocation ==
  /\ pc = "pure"
  /\ nlOut' = nextLocation(nlLoc, nlText)
  /\ pc' = "applied"
  /\ UNCHANGED <<lexVars, nlLoc, nlText>>

NextNL == ApplyNextLocation

SpecNL == InitNL /\ [][NextNL]_vars

-----------------------------------------------------------------------------
(* Vocabulary of the properties, defined from the patterns and the source  *)
(* alone, without the lexer's regular expression.                          *)

\* The texts of a token sequence, in order.
Texts(ts) == [j \in 1..Len(ts) |-> ts[j].text]

\* The end offsets of every match of the pattern of kind k at offset i.
PatternEnds(k, i) == Ends(Library[k], src, i, TRUE)

\* The positions, in the pattern set, of the patterns that match at offset i.
MatchingAt(i) == {k \in DOMAIN regExps : PatternEnds(regExps[k], i) # <<>>}

FirstMatchingAt(i) == CHOOSE k \in MatchingAt(i) : \A h \in MatchingAt(i) : k <= h

\* The text the pattern at position k of the set matches at offset i.
PatternText(k, i) == Substring(src, i, Head(PatternEnds(regExps[k], i)))

\* The offsets of the newlines of s before offset i.
NewlinesBefore(s, i) == {j \in 0..(i - 1) : s[j + 1] = NL}

MaxOf(S) == CHOOSE x \in S : \A y \in S : y <= x

MinOf(S) == CHOOSE x \in S : \A y \in S : x <= y

\* The offset at which the line of s holding offset i starts, and the one
\* at which it ends (the offset of its newline, or the end of s).
LineStart(s, i) ==
  IF NewlinesBefore(s, i) = {} THEN 0 ELSE MaxOf(NewlinesBefore(s, i)) + 1

LineEnd(s, i) ==
  LET after == {j \in i..(Len(s) - 1) : s[j + 1] = NL}
  IN  IF after = {} THEN Len(s) ELSE MinOf(after)

IsSyntaxError == thrown # <<>> /\ thrown[1].type = "SyntaxError"

IsTypeError == thrown # <<>> /\ thrown[1].type = "TypeError"

-----------------------------------------------------------------------------
(* C1 *)

\* C1 (coverage, no gaps): when lex returns a token sequence, the texts of
\* the tokens concatenated in order are the source.
C1_Coverage == pc = "returned" => Concat(Texts(ret[1])) = src

C1_Witness == pc = "returned" /\ Len(ret[1]) >= 2 /\ Len(src) = MaxLen

-----------------------------------------------------------------------------
(* C2 *)

\* C2 (unknown token): when the loop stops at a scan position below the
\* length of the source at which no pattern of the set matches, lex has
\* thrown a SyntaxError whose message holds "Unknown token" and whose loc is
\* the scan location, whose index is the total length of the tokens matched
\* so far, and nothing was returned.
C2_UnknownToken ==
  (pc # "loop" /\ loc.index < Len(src) /\ MatchingAt(loc.index) = {})
    => /\ IsSyntaxError
       /\ \E j \in 0..Len(thrown[1].message) :
            /\ j + Len(UnknownToken) <= Len(thrown[1].message)
            /\ Substring(thrown[1].message, j, j + Len(UnknownToken))
                 = UnknownToken
       /\ thrown[1].loc = loc
       /\ thrown[1].loc.index = Len(Concat(Texts(tokens)))
       /\ ret = <<>>

-----------------------------------------------------------------------------
(* C3 *)

\* C3 (priority on overlap): a token produced at a position where two or
\* more patterns match has the kind of the first-listed pattern among them
\* and that pattern's match as its text.
C3_Priority ==
  \A j \in DOMAIN tokens :
    LET i == tokens[j].loc.index
    IN  Cardinality(MatchingAt(i)) >= 2
          => /\ tokens[j].kind = regExps[FirstMatchingAt(i)]
             /\ tokens[j].text = PatternText(FirstMatchingAt(i), i)

-----------------------------------------------------------------------------
(* C4 *)

\* C4 as stated (longest match): no pattern of the set matches, at the
\* position of a token, a text strictly longer than the token's.
C4_Longest ==
  \A j \in DOMAIN tokens : \A k \in DOMAIN regExps :
    LET i == tokens[j].loc.index
        es == PatternEnds(regExps[k], i)
    IN  \A h \in DOMAIN es : es[h] - i <= Len(tokens[j].text)

\* C4 amended (first match, not longest): the text of every token is the
\* match of the first-listed pattern that matches at the token's position,
\* as that pattern alone matches there.
C4_FirstMatch ==
  \A j \in DOMAIN tokens :
    LET i == tokens[j].loc.index
    IN  /\ MatchingAt(i) # {}
        /\ tokens[j].text = PatternText(FirstMatchingAt(i), i)

\* A non-empty token at whose position a later-listed pattern matches a
\* longer text.
C4_Witness ==
  \E j \in DOMAIN tokens : \E k \in DOMAIN regExps :
    LET i == tokens[j].loc.index
        es == PatternEnds(regExps[k], i)
    IN  /\ tokens[j].text # <<>>
        /\ k > FirstMatchingAt(i)
        /\ \E h \in DOMAIN es : es[h] - i > Len(tokens[j].text)

-----------------------------------------------------------------------------
(* C5 *)

\* C5 (diagnostic message): the message of a SyntaxError thrown by lex is
\* "{line}:{column}: Unknown token\n{L}\n{S}^", L being the line of the
\* source that holds offset loc.index and S being column - 1 spaces, which
\* puts the caret under offset loc.index of the source.
C5_Message ==
  IsSyntaxError =>
    LET l == thrown[1].loc
        L == Substring(src, LineStart(src, l.index), LineEnd(src, l.index))
        S == [j \in 1..(l.index - LineStart(src, l.index)) |-> " "]
    IN  /\ Len(S) = l.column - 1
        /\ thrown[1].message =
             ToString(l.line) \o <<":">> \o ToString(l.column) \o <<":", " ">>
             \o UnknownToken \o <<NL>> \o L \o <<NL>> \o S \o <<"^">>

C5_Witness ==
  /\ IsSyntaxError
  /\ thrown[1].loc.line >= 2
  /\ thrown[1].loc.column >= 2

-----------------------------------------------------------------------------
(* C6 *)

\* C6 (termination): while no match was zero-length the loop has run at
\* most length(source) iterations and, once over, lex has returned or thrown
\* a SyntaxError; after a zero-length match lex is still in the loop.
C6_Termination ==
  /\ ~zeroLen => /\ iters <= Len(src)
                 /\ pc # "loop" => (pc = "returned" \/ IsSyntaxError)
  /\ zeroLen => pc = "loop"

-----------------------------------------------------------------------------
(* C7 *)

\* C7 (token well-formedness): every token has a kind that is a key of the
\* pattern set and a text that is the substring of the source starting at
\* the token's loc.index.
C7_WellFormed ==
  \A j \in DOMAIN tokens :
    LET i == tokens[j].loc.index
    IN  /\ tokens[j].kind \in {regExps[k] : k \in DOMAIN regExps}
        /\ i + Len(tokens[j].text) <= Len(src)
        /\ tokens[j].text = Substring(src, i, i + Len(tokens[j].text))

-----------------------------------------------------------------------------
(* C8 *)

\* C8 (index chaining): in a token sequence returned for a non-empty source
\* the first token is at {0, 1, 1} and each token starts where the one
\* before it ends.
C8_Chaining ==
  (pc = "returned" /\ src # <<>>) =>
    LET ts == ret[1]
    IN  /\ ts # <<>>
        /\ ts[1].loc = [index |-> 0, line |-> 1, column |-> 1]
        /\ \A j \in 1..(Len(ts) - 1) :
             ts[j + 1].loc.index = ts[j].loc.index + Len(ts[j].text)

C8_Witness == pc = "returned" /\ Len(ret[1]) = MaxLen

-----------------------------------------------------------------------------
(* C9 *)

\* C9 (location advance rules): nextLocation(loc, text) has index
\* loc.index + length(text), line loc.line + the number of newlines of
\* text, and column length(text) - (offset of the last newline) when text
\* has a newline, loc.column + length(text) otherwise; so the column is at
\* least 1 and neither index nor line decreases.
C9_Advance ==
  pc = "applied" =>
    LET nls == NewlinesBefore(nlText, Len(nlText))
    IN  /\ nlOut.index = nlLoc.index + Len(nlText)
        /\ nlOut.line = nlLoc.line + Cardinality(nls)
        /\ nlOut.column = IF nls # {} THEN Len(nlText) - MaxOf(nls)
                          ELSE nlLoc.column + Len(nlText)
        /\ nlOut.column >= 1
        /\ nlOut.index >= nlLoc.index
        /\ nlOut.line >= nlLoc.line

\* A text with two newlines and a character after the last one.
C9_Witness ==
  /\ pc = "applied"
  /\ Cardinality(NewlinesBefore(nlText, Len(nlText))) >= 2
  /\ nlText[Len(nlText)] # NL
  /\ nlLoc.column > 1

-----------------------------------------------------------------------------
(* C10 *)

\* The line and column of l are those derived from l.index and the source.
Consistent(l) ==
  /\ l.index \in 0..Len(src)
  /\ l.line = 1 + Cardinality(NewlinesBefore(src, l.index))
  /\ l.column = l.index - (IF NewlinesBefore(src, l.index) = {} THEN -1
                           ELSE MaxOf(NewlinesBefore(src, l.index)))

\* C10 (location consistency): the tracked location, the loc of every token
\* and the loc of a SyntaxError agree with the line and column derived from
\* their index.
C10_Consistent ==
  /\ Consistent(loc)
  /\ \A j \in DOMAIN tokens : Consistent(tokens[j].loc)
  /\ IsSyntaxError => Consistent(thrown[1].loc)

\* A token that spans a newline and goes on after it, followed by another.
C10_Witness ==
  /\ Len(tokens) >= 2
  /\ \E j \in 1..(Len(tokens[1].text) - 1) : tokens[1].text[j] = NL
  /\ tokens[2].loc.line = 2
  /\ tokens[2].loc.column >= 2

=============================================================================
